---------------------------- MODULE Spec2Model ----------------------------
(***************************************************************************)
(* The Trivia API backend (backend/flaskr/__init__.py): the question store *)
(* behind the ORM, the request handlers, and the responses they return.    *)
(*                                                                         *)
(* JSON values are tagged records, request bodies and response bodies are  *)
(* functions from keys to values (a key that is not sent is not in the     *)
(* DOMAIN), strings are sequences of one-character strings.                *)
(***************************************************************************)
EXTENDS Integers, Sequences, FiniteSets, TLC

VARIABLES
  questions,   \* the rows of the questions table: a set of Question records
  nextId,      \* the value the id sequence of the table hands out next
  everDeleted, \* history: the ids of the rows deleted so far
  pre,         \* history: the rows of the table when the last request arrived
  resp,        \* the last request and the response it got
  quizState,   \* quiz client: "idle", "playing", "done", "failed" or "void"
  quizCat,     \* quiz client: the category filter of the round being played
  quizPrev,    \* quiz client: the ids served so far, in order (previous_questions)
  quizPool,    \* history: the ids matching the filter when the round started
  quizCalls    \* history: the number of POST /quizzes calls of the round

storeVars == <<questions, nextId, everDeleted, pre, resp>>
quizVars == <<quizState, quizCat, quizPrev, quizPool, quizCalls>>
vars == <<questions, nextId, everDeleted, pre, resp,
          quizState, quizCat, quizPrev, quizPool, quizCalls>>

---------------------------------------------------------------------------
(* Bounds of the model *)

\* ids the sequence may hand out in Spec and SpecQuiz
MaxId == 3
\* rows of the seeded table in SpecPage
MaxSeed == 12
\* page numbers requested run from -MaxPage to MaxPage
MaxPage == 3

QUESTIONS_PER_PAGE == 10

---------------------------------------------------------------------------
(* JSON values *)

Null == [t |-> "null"]
Absent == [t |-> "absent"]
JInt(i) == [t |-> "int", v |-> i]
JStr(s) == [t |-> "str", v |-> s]
JList(s) == [t |-> "list", v |-> s]
JObj(f) == [t |-> "obj", v |-> f]

\* a request body: the keys of `fields` that are sent
MkBody(fields) ==
  LET sent == {k \in DOMAIN fields : fields[k] # Absent}
  IN  [k \in sent |-> fields[k]]

\* dict.get(key): None (the value of a JSON null too) when the key is not there
Get(body, key) == IF key \in DOMAIN body THEN body[key] ELSE Null

\* Python truth value of a JSON value
Truthy(j) ==
  CASE j.t = "null" -> FALSE
    [] j.t = "int" -> j.v # 0
    [] j.t = "str" -> Len(j.v) > 0
    [] j.t = "list" -> Len(j.v) > 0
    [] j.t = "obj" -> DOMAIN j.v # {}
    [] OTHER -> FALSE

Max(a, b) == IF a >= b THEN a ELSE b
Min(a, b) == IF a <= b THEN a ELSE b

\* Python's seq[start:end], negative indices counting from the end
Slice(s, start, end) ==
  LET n == Len(s)
      lo == IF start < 0 THEN Max(n + start, 0) ELSE Min(start, n)
      hi == IF end < 0 THEN Max(n + end, 0) ELSE Min(end, n)
  IN  IF lo < hi THEN SubSeq(s, lo + 1, hi) ELSE <<>>

---------------------------------------------------------------------------
(* The questions table *)

Ids(rows) == {q.id : q \in rows}

\* the rows of a query result, in id order
RECURSIVE OrderById(_)
OrderById(rows) ==
  IF rows = {} THEN <<>>
  ELSE LET first == CHOOSE q \in rows : \A r \in rows : q.id <= r.id
       IN  <<first>> \o OrderById(rows \ {first})

\* Question.format()
Format(q) ==
  [id |-> q.id, question |-> q.question, answer |-> q.answer,
   category |-> q.category, difficulty |-> q.difficulty]

\* Question.query.filter(Question.id == id).one_or_none(): the set of <= 1 rows
ById(rows, id) == {q \in rows : q.id = id}

\* Question.query.filter(Question.category == id)
ByCategoryAll(rows, id) == rows
ByCategory(rows, id) == {q \in rows : q.category = id}

\* request.args.get('page', 1, type=int): 1 when absent or not an integer
PageOf(arg) == IF arg.t = "int" THEN arg.v ELSE 1

paginate_questions(arg, selection) ==
  LET page == PageOf(arg)
      start == (page - 1) * QUESTIONS_PER_PAGE
      end == start + QUESTIONS_PER_PAGE
      formatted == [i \in 1..Len(selection) |-> Format(selection[i])]
  IN  Slice(formatted, start, end)

\* the response of abort(code), as the error handlers for 400, 404 and 422
\* build it
Error(code) ==
  [status |-> code,
   body |-> [success |-> FALSE, error |-> code,
             message |-> CASE code = 400 -> "bad request"
                           [] code = 404 -> "resource not found"
                           [] OTHER -> "unprocessable"]]

\* an exception no handler catches: the framework's own 500 page, no envelope
Unhandled == [status |-> 500, body |-> <<>>]

Ok(body) == [status |-> 200, body |-> body]

Reply(op, req, r) == [op |-> op, req |-> req, status |-> r.status, body |-> r.body]

---------------------------------------------------------------------------
(* GET /questions and GET /categories/<id>/questions *)

retrieve_all_questions(arg) ==
  LET selection == OrderById(questions)
      total_questions == Len(selection)
      current_questions == paginate_questions(arg, selection)
      r == IF Len(current_questions) = 0 THEN Error(404)
           ELSE Ok([success |-> TRUE, questions |-> current_questions,
                    total_questions |-> total_questions])
  IN  /\ resp' = Reply("list", [page |-> arg], r)
      /\ pre' = questions
      /\ UNCHANGED <<questions, nextId, everDeleted>>

retrieve_questions_per_category(id, arg) ==
  LET selection == OrderById(ByCategory(questions, id))
      total_questions == Len(selection)
      current_questions == paginate_questions(arg, selection)
      r == IF Len(current_questions) = 0 THEN Error(404)
           ELSE Ok([success |-> TRUE, questions |-> current_questions,
                    total_questions |-> total_questions,
                    current_category |-> id])
  IN  /\ resp' = Reply("by_category", [id |-> id, page |-> arg], r)
      /\ pre' = questions
      /\ UNCHANGED <<questions, nextId, everDeleted>>

---------------------------------------------------------------------------
(* DELETE /questions/<id> *)

\* Question.insert() and Question.delete(): the row joins or leaves the table
InsertRow(rows, q) == rows \cup {q}
DeleteRow(rows, found) == rows \ found

\* except: abort(422) around a handler's body: whatever it raised becomes 422
NoCatch(r) == r
CatchAll(r) == IF r.status # 200 THEN Error(422) ELSE r

\* the handler with total_questions counted before the row is deleted
delete_result_stale(rows, id, arg) ==
  LET found == ById(rows, id)
      after == DeleteRow(rows, found)
  IN  [rows |-> after,
       r |-> CatchAll(
         IF found = {} THEN Error(404)
         ELSE Ok([success |-> TRUE, deleted |-> id,
                  questions |-> paginate_questions(arg, OrderById(after)),
                  total_questions |-> Cardinality(rows)]))]

\* the table after the request and the response: [rows, r]
delete_result(rows, id, arg) ==
  LET found == ById(rows, id)
      after == DeleteRow(rows, found)
  IN  [rows |-> after,
       r |-> CatchAll(
         IF found = {} THEN Error(404)
         ELSE Ok([success |-> TRUE, deleted |-> id,
                  questions |-> paginate_questions(arg, OrderById(after)),
                  total_questions |-> Cardinality(after)]))]

delete_question(id, arg) ==
  LET res == delete_result(questions, id, arg)
  IN  /\ questions' = res.rows
      /\ everDeleted' = everDeleted \cup (Ids(questions) \ Ids(res.rows))
      /\ resp' = Reply("delete", [id |-> id, page |-> arg], res.r)
      /\ pre' = questions
      /\ UNCHANGED nextId

---------------------------------------------------------------------------
(* POST /questions: search, or create *)

LowerOf(c) ==
  CASE c = "A" -> "a"
    [] c = "B" -> "b"
    [] OTHER -> c

\* text ILIKE pattern: % is any run of characters, _ any one character,
\* every other character itself, letters compared without case
RECURSIVE ILike(_, _)
ILike(text, pattern) ==
  IF pattern = <<>> THEN text = <<>>
  ELSE IF Head(pattern) = "%"
       THEN \/ ILike(text, Tail(pattern))
            \/ text # <<>> /\ ILike(Tail(text), pattern)
  ELSE /\ text # <<>>
       /\ \/ Head(pattern) = "_"
          \/ LowerOf(Head(pattern)) = LowerOf(Head(text))
       /\ ILike(Tail(text), Tail(pattern))

\* '%{}%'.format(search)
SearchPattern(search) == <<"%">> \o search.v \o <<"%">>

\* Question.query.filter(Question.question.ilike(pattern))
BySearch(rows, search) ==
  {q \in rows : ILike(q.question, SearchPattern(search))}

\* if search: ... else: ...
IsSearchNotNone(search) == search.t # "null"
IsSearch(search) == Truthy(search)

\* the test of the four required fields
MissingField(body) ==
  \/ Get(body, "question") = Null
  \/ Get(body, "answer") = Null
  \/ Get(body, "category") = Null
  \/ Get(body, "difficulty") = Null

\* Question(question=..., answer=..., category=..., difficulty=...), with the
\* id the table's sequence gives it on insert
NewRow(id, body) ==
  [id |-> id, question |-> body["question"].v, answer |-> body["answer"].v,
   category |-> body["category"].v, difficulty |-> body["difficulty"].v]

\* the handler with total_questions counted before the row is inserted
create_result_stale(rows, id, body, arg) ==
  LET search == Get(body, "searchTerm")
  IN  IF IsSearch(search)
      THEN LET selection == OrderById(BySearch(rows, search))
           IN  [rows |-> rows, inserted |-> FALSE,
                r |-> CatchAll(Ok(
                  [success |-> TRUE,
                   questions |-> paginate_questions(arg, selection),
                   total_questions |-> Len(selection)]))]
      ELSE IF MissingField(body)
      THEN [rows |-> rows, inserted |-> FALSE, r |-> CatchAll(Error(422))]
      ELSE LET after == InsertRow(rows, NewRow(id, body))
           IN  [rows |-> after, inserted |-> TRUE,
                r |-> CatchAll(Ok(
                  [success |-> TRUE, created |-> id,
                   questions |-> paginate_questions(arg, OrderById(after)),
                   total_questions |-> Cardinality(rows)]))]

\* the table after the request, whether a row was inserted, and the response
create_result(rows, id, body, arg) ==
  LET search == Get(body, "searchTerm")
  IN  IF IsSearch(search)
      THEN LET selection == OrderById(BySearch(rows, search))
           IN  [rows |-> rows, inserted |-> FALSE,
                r |-> CatchAll(Ok(
                  [success |-> TRUE,
                   questions |-> paginate_questions(arg, selection),
                   total_questions |-> Len(selection)]))]
      ELSE IF MissingField(body)
      THEN [rows |-> rows, inserted |-> FALSE, r |-> CatchAll(Error(422))]
      ELSE LET after == InsertRow(rows, NewRow(id, body))
           IN  [rows |-> after, inserted |-> TRUE,
                r |-> CatchAll(Ok(
                  [success |-> TRUE, created |-> id,
                   questions |-> paginate_questions(arg, OrderById(after)),
                   total_questions |-> Cardinality(after)]))]

create_question(body, arg) ==
  LET res == create_result(questions, nextId, body, arg)
  IN  /\ res.inserted => nextId <= MaxId
      /\ questions' = res.rows
      /\ nextId' = IF res.inserted THEN nextId + 1 ELSE nextId
      /\ resp' = Reply("create", [body |-> body, page |-> arg], res.r)
      /\ pre' = questions
      /\ UNCHANGED everDeleted

---------------------------------------------------------------------------
(* POST /quizzes *)

DigitVal(c) ==
  CASE c = "0" -> 0
    [] c = "1" -> 1
    [] c = "2" -> 2
    [] c = "3" -> 3
    [] OTHER -> -1

RECURSIVE DigitsValue(_)
DigitsValue(s) ==
  IF s = <<>> THEN 0
  ELSE DigitsValue(SubSeq(s, 1, Len(s) - 1)) * 10 + DigitVal(s[Len(s)])

\* whether int(j) returns (it raises on a non-numeric string and on a
\* value that is neither a number nor a string)
IntParses(j) ==
  \/ j.t = "int"
  \/ /\ j.t = "str"
     /\ Len(j.v) > 0
     /\ \A i \in 1..Len(j.v) : DigitVal(j.v[i]) >= 0

\* int(j) where it returns
IntOf(j) == IF j.t = "int" THEN j.v ELSE DigitsValue(j.v)

\* whether set(j) returns
SetBuilds(j) == j.t \in {"list", "str", "obj"}

\* the integers of set(previous_questions)
PrevSet(j) ==
  IF j.t = "list" THEN {j.v[i].v : i \in {n \in 1..Len(j.v) : j.v[n].t = "int"}}
  ELSE {}

\* the questions of the category, 0 standing for all
CategoryPoolNoSentinel(rows, category) == ByCategory(rows, category)
CategoryPool(rows, category) ==
  IF category = 0 THEN rows ELSE ByCategory(rows, category)

\* those not used already
PossQsAll(pool, previous_questions) == pool
PossQs(pool, previous_questions) ==
  {q \in pool : q.id \notin previous_questions}

\* what the handler does before it draws: "abort" with the error response,
\* or "draw" with the possible questions
quiz_candidates(rows, body) ==
  LET category == Get(body, "quiz_category")
      previous_questions == Get(body, "previous_questions")
  IN  IF category = Null \/ previous_questions = Null
      THEN [kind |-> "abort", r |-> Error(400)]
      ELSE IF \/ category.t # "obj"
              \/ "id" \notin DOMAIN category.v
              \/ ~IntParses(category.v["id"])
              \/ ~SetBuilds(previous_questions)
      THEN [kind |-> "abort", r |-> Unhandled]
      ELSE [kind |-> "draw",
            poss_qs |-> PossQs(CategoryPool(rows, IntOf(category.v["id"])),
                               PrevSet(previous_questions))]

retrieve_quiz_question(body) ==
  LET c == quiz_candidates(questions, body)
  IN  /\ \/ /\ c.kind = "abort"
            /\ resp' = Reply("quiz", [body |-> body], c.r)
         \/ /\ c.kind = "draw"
            /\ c.poss_qs = {}
            /\ resp' = Reply("quiz", [body |-> body], Ok([success |-> TRUE]))
         \/ /\ c.kind = "draw"
            /\ \E question \in c.poss_qs :
                 resp' = Reply("quiz", [body |-> body],
                               Ok([success |-> TRUE,
                                   question |-> Format(question)]))
      /\ pre' = questions
      /\ UNCHANGED <<questions, nextId, everDeleted>>

---------------------------------------------------------------------------
(* The paged reads over a seeded table *)

Categories == {1, 2}
\* category ids a request may name: the two of the table and one without rows
CategoryIds == {1, 2, 3}

Text1 == <<"A", "b">>
Text2 == <<"b">>
Answer1 == <<"a">>

\* n rows with ids 1..n, the first k of category 1 and the others of category 2
Seed(n, k) ==
  {[id |-> i, question |-> Text1, answer |-> Answer1,
    category |-> IF i <= k THEN 1 ELSE 2, difficulty |-> 1] : i \in 1..n}

PageArgs == {Absent, JStr(<<"x">>)} \cup {JInt(p) : p \in (0 - MaxPage)..MaxPage}

NoRequest == [op |-> "none", req |-> <<>>, status |-> 0, body |-> <<>>]

InitPage ==
  /\ \E n \in 0..MaxSeed : \E k \in 0..n :
       /\ questions = Seed(n, k)
       /\ nextId = n + 1
  /\ everDeleted = {}
  /\ pre = questions
  /\ resp = NoRequest
  /\ quizState = "idle"
  /\ quizCat = 0
  /\ quizPrev = <<>>
  /\ quizPool = {}
  /\ quizCalls = 0

ListQuestions == \E arg \in PageArgs : retrieve_all_questions(arg)

ListByCategory ==
  \E id \in CategoryIds : \E arg \in PageArgs :
    retrieve_questions_per_category(id, arg)

NextPage ==
  \/ ListQuestions /\ UNCHANGED quizVars
  \/ ListByCategory /\ UNCHANGED quizVars

SpecPage == InitPage /\ [][NextPage]_vars

---------------------------------------------------------------------------
(* The requests of the API over a table that starts empty *)

QuestionVals == {Absent, Null, JStr(Text1), JStr(Text2)}
AnswerVals == {Absent, JStr(Answer1)}
CategoryVals == {Absent, JInt(1)}
DifficultyVals == {Absent, JInt(1)}
\* search terms that are no search: not sent, or empty
NoSearchVals == {Absent, JStr(<<>>)}
SearchVals ==
  {JStr(<<"a">>), JStr(<<"B">>), JStr(<<"a", "B">>), JStr(<<"x">>),
   JStr(<<"%">>), JStr(<<"_">>)}

Init ==
  /\ questions = {}
  /\ nextId = 1
  /\ everDeleted = {}
  /\ pre = {}
  /\ resp = NoRequest
  /\ quizState = "idle"
  /\ quizCat = 0
  /\ quizPrev = <<>>
  /\ quizPool = {}
  /\ quizCalls = 0

\* a body without a search term, any of the four fields sent or not
Create ==
  \E q \in QuestionVals, a \in AnswerVals, c \in CategoryVals,
     d \in DifficultyVals, s \in NoSearchVals :
    create_question(MkBody([question |-> q, answer |-> a, category |-> c,
                            difficulty |-> d, searchTerm |-> s]), Absent)

\* a body with a search term, alone or beside the four fields
Search ==
  \E s \in SearchVals, full \in BOOLEAN :
    create_question(
      MkBody([question |-> IF full THEN JStr(Text2) ELSE Absent,
              answer |-> IF full THEN JStr(Answer1) ELSE Absent,
              category |-> IF full THEN JInt(1) ELSE Absent,
              difficulty |-> IF full THEN JInt(1) ELSE Absent,
              searchTerm |-> s]), Absent)

Delete == \E id \in 1..(MaxId + 1) : delete_question(id, Absent)

Next ==
  \/ Create /\ UNCHANGED quizVars
  \/ Search /\ UNCHANGED quizVars
  \/ Delete /\ UNCHANGED quizVars

Spec == Init /\ [][Next]_vars

---------------------------------------------------------------------------
(* POST /quizzes over a table that creates and deletes change *)

RECURSIVE IdList(_)
\* the ids of S in ascending order, as a JSON list
IdList(S) ==
  IF S = {} THEN <<>>
  ELSE LET m == CHOOSE x \in S : \A y \in S : x <= y
       IN  <<JInt(m)>> \o IdList(S \ {m})

\* quiz_category values the handler reads an id from
GoodCategoryVals ==
  {JObj([id |-> JStr(<<"0">>)]), JObj([id |-> JInt(1)]),
   JObj([type |-> JStr(<<"A">>), id |-> JStr(<<"2">>)]),
   JObj([id |-> JStr(<<"3">>)])}

\* not sent, null, not an object, an object without id, an id that is no number
BadCategoryVals ==
  {Absent, Null, JInt(1), JObj([type |-> JStr(<<"A">>)]),
   JObj([id |-> JStr(<<"x">>)]), JObj([id |-> Null])}

GoodPreviousVals == {JList(IdList(S)) : S \in SUBSET (1..MaxId)}

\* not sent, null, not a collection
BadPreviousVals == {Absent, Null, JInt(1)}

QuizCreate ==
  \E c \in Categories :
    create_question(MkBody([question |-> JStr(Text1), answer |-> JStr(Answer1),
                            category |-> JInt(c), difficulty |-> JInt(1)]),
                    Absent)

QuizDelete == \E id \in 1..MaxId : delete_question(id, Absent)

Quiz ==
  \E c \in GoodCategoryVals, p \in GoodPreviousVals :
    retrieve_quiz_question(MkBody([quiz_category |-> c,
                                   previous_questions |-> p]))

QuizBadCategory ==
  \E c \in BadCategoryVals, p \in {JList(<<>>), Absent} :
    retrieve_quiz_question(MkBody([quiz_category |-> c,
                                   previous_questions |-> p]))

QuizBadPrevious ==
  \E c \in GoodCategoryVals, p \in BadPreviousVals :
    retrieve_quiz_question(MkBody([quiz_category |-> c,
                                   previous_questions |-> p]))

NextQuizApi ==
  \/ QuizCreate /\ UNCHANGED quizVars
  \/ QuizDelete /\ UNCHANGED quizVars
  \/ Quiz /\ UNCHANGED quizVars
  \/ QuizBadCategory /\ UNCHANGED quizVars
  \/ QuizBadPrevious /\ UNCHANGED quizVars

SpecQuizApi == Init /\ [][NextQuizApi]_vars

---------------------------------------------------------------------------
(* A quiz round: the client resends the ids it was served *)

Range(s) == {s[i] : i \in 1..Len(s)}

QuizStart ==
  \E cat \in {0} \cup CategoryIds :
    /\ quizState # "playing"
    /\ quizState' = "playing"
    /\ quizCat' = cat
    /\ quizPrev' = <<>>
    /\ quizPool' = Ids(IF cat = 0 THEN questions
                       ELSE {q \in questions : q.category = cat})
    /\ quizCalls' = 0
    /\ UNCHANGED storeVars

QuizRound ==
  /\ quizState = "playing"
  /\ retrieve_quiz_question(
       MkBody([quiz_category |-> JObj([id |-> JInt(quizCat)]),
               previous_questions |->
                 JList([i \in 1..Len(quizPrev) |-> JInt(quizPrev[i])])]))
  /\ quizCalls' = quizCalls + 1
  /\ IF resp'.status # 200
     THEN quizPrev' = quizPrev /\ quizState' = "failed"
     ELSE IF "question" \in DOMAIN resp'.body
     THEN /\ quizPrev' = Append(quizPrev, resp'.body["question"].id)
          /\ quizState' = "playing"
     ELSE /\ quizPrev' = quizPrev
          /\ quizState' = "done"
  /\ UNCHANGED <<quizCat, quizPool>>

\* a round is void once the table changed under it
Disturb ==
  /\ quizState' = IF quizState = "playing" /\ questions' # questions
                  THEN "void" ELSE quizState
  /\ UNCHANGED <<quizCat, quizPrev, quizPool, quizCalls>>

NextQuiz ==
  \/ QuizStart
  \/ QuizRound
  \/ QuizCreate /\ Disturb
  \/ QuizDelete /\ Disturb

SpecQuiz == Init /\ [][NextQuiz]_vars

---------------------------------------------------------------------------
(* The properties *)

CreateFields == {"question", "answer", "category", "difficulty"}

\* the field is in the body and carries a value
Given(body, key) == key \in DOMAIN body /\ body[key].t # "null"

\* the body carries a non-empty search term
HasSearchTerm(body) ==
  /\ Given(body, "searchTerm")
  /\ body["searchTerm"].t = "str"
  /\ Len(body["searchTerm"].v) > 0

ErrorEnvelope(code, message) ==
  /\ resp.status = code
  /\ resp.body = [success |-> FALSE, error |-> code, message |-> message]

\* term occurs in text, letters compared without case
Contains(text, term) ==
  \E i \in 0..(Len(text) - Len(term)) :
    \A j \in 1..Len(term) : LowerOf(text[i + j]) = LowerOf(term[j])

\* the quiz body carries a category object with a numeric id and a list
QuizWellFormed(body) ==
  /\ Given(body, "quiz_category")
  /\ body["quiz_category"].t = "obj"
  /\ "id" \in DOMAIN body["quiz_category"].v
  /\ IntParses(body["quiz_category"].v["id"])
  /\ Given(body, "previous_questions")
  /\ body["previous_questions"].t = "list"

QuizFilter(body) == IntOf(body["quiz_category"].v["id"])
QuizSeen(body) ==
  {body["previous_questions"].v[i].v :
     i \in 1..Len(body["previous_questions"].v)}
Matching(rows, c) == {q \in rows : c = 0 \/ q.category = c}

\* C1: POST /quizzes returns a question only if it is stored, its id is not
\* in previous_questions and (for a filter other than 0) its category is the
\* filter; it returns success without a question exactly when every stored
\* question matching the filter is in previous_questions.
C1_QuizServesUnseenOfFilter ==
  (resp.op = "quiz" /\ QuizWellFormed(resp.req.body)) =>
    LET c == QuizFilter(resp.req.body)
        P == QuizSeen(resp.req.body)
    IN  /\ resp.status = 200
        /\ resp.body["success"] = TRUE
        /\ "question" \in DOMAIN resp.body =>
             \E q \in questions :
               /\ resp.body["question"] = Format(q)
               /\ q.id \notin P
               /\ c # 0 => q.category = c
        /\ "question" \notin DOMAIN resp.body <=>
             \A q \in Matching(questions, c) : q.id \in P

C1_Witness ==
  /\ resp.op = "quiz"
  /\ QuizWellFormed(resp.req.body)
  /\ "question" \in DOMAIN resp.body
  /\ QuizFilter(resp.req.body) # 0
  /\ QuizSeen(resp.req.body) \cap Ids(Matching(questions, QuizFilter(resp.req.body))) # {}
  /\ \E q \in questions : q.category # QuizFilter(resp.req.body)
                          /\ q.id \notin QuizSeen(resp.req.body)

\* C2: DELETE of a stored id succeeds with deleted = id, removes that row and
\* no other, reports the previous count minus 1, and no row with a deleted id
\* is ever stored again.
C2_DeleteRemovesPermanently ==
  /\ (resp.op = "delete" /\ resp.req.id \in Ids(pre)) =>
       /\ resp.status = 200
       /\ resp.body["success"] = TRUE
       /\ resp.body["deleted"] = resp.req.id
       /\ questions = {q \in pre : q.id # resp.req.id}
       /\ resp.body["total_questions"] = Cardinality(pre) - 1
  /\ \A id \in everDeleted : \A q \in questions : q.id # id

C2_Witness ==
  /\ resp.op = "delete"
  /\ resp.status = 200
  /\ Cardinality(pre) = 2
  /\ Cardinality(everDeleted) = 2

\* C3: a create request (no search term, the four fields given) stores
\* exactly one new row, returns as created an id greater than every id issued
\* before, and reports the previous count plus 1.
C3_CreateIssuesFreshId ==
  (/\ resp.op = "create"
   /\ ~HasSearchTerm(resp.req.body)
   /\ \A k \in CreateFields : Given(resp.req.body, k)) =>
    /\ resp.status = 200
    /\ resp.body["success"] = TRUE
    /\ "created" \in DOMAIN resp.body
    /\ \A id \in Ids(pre) \cup everDeleted : id < resp.body["created"]
    /\ resp.body["created"] \notin Ids(pre)
    /\ pre \subseteq questions
    /\ Ids(questions \ pre) = {resp.body["created"]}
    /\ Cardinality(questions \ pre) = 1
    /\ resp.body["total_questions"] = Cardinality(pre) + 1

C3_Witness ==
  /\ resp.op = "create"
  /\ "created" \in DOMAIN resp.body
  /\ pre # {}
  /\ (resp.body["created"] - 1) \in everDeleted
  /\ Given(resp.req.body, "searchTerm")

\* C4: a create request with any of the four fields missing is answered 422
\* "unprocessable" and leaves the table as it was.
C4_CreateMissingFieldIs422 ==
  (/\ resp.op = "create"
   /\ ~HasSearchTerm(resp.req.body)
   /\ \E k \in CreateFields : ~Given(resp.req.body, k)) =>
    /\ ErrorEnvelope(422, "unprocessable")
    /\ questions = pre

C4_Witness ==
  /\ resp.op = "create"
  /\ resp.status = 422
  /\ pre # {}
  /\ Cardinality({k \in CreateFields : Given(resp.req.body, k)}) = 3

C6_OutOfRangePageIs404 ==
  (/\ resp.op = "list"
   /\ resp.req.page.t = "int"
   /\ \/ resp.req.page.v < 1
      \/ (resp.req.page.v - 1) * 10 >= Cardinality(questions)) =>
    /\ paginate_questions(resp.req.page, OrderById(questions)) = <<>>
    /\ resp.status = 404

\* C7: a body with a non-empty searchTerm is handled as a search: nothing is
\* stored, no created id is returned, and the answer is success with
\* total_questions the number of stored questions whose text contains the
\* term without regard to case.
C7_SearchCountsSubstringMatches ==
  (resp.op = "create" /\ HasSearchTerm(resp.req.body)) =>
    /\ questions = pre
    /\ resp.status = 200
    /\ resp.body["success"] = TRUE
    /\ "created" \notin DOMAIN resp.body
    /\ resp.body["total_questions"] =
         Cardinality({q \in questions :
                        Contains(q.question, resp.req.body["searchTerm"].v)})

\* the rows of the category the request names
OfCategory == {q \in questions : q.category = resp.req.id}

\* C8 as stated: GET /categories/<id>/questions answers 404 when no stored
\* question has the category, and otherwise success with exactly the stored
\* questions of the category and their number as total_questions.
C8_Original_ExactSubset ==
  (resp.op = "by_category" /\ resp.req.page = Absent) =>
    IF OfCategory = {} THEN resp.status = 404
    ELSE /\ resp.status = 200
         /\ Range(resp.body["questions"]) = {Format(q) : q \in OfCategory}
         /\ resp.body["total_questions"] = Cardinality(OfCategory)

\* the number of rows page p shows of k rows
Shown(k, p) == Max(0, Min(QUESTIONS_PER_PAGE, k - (p - 1) * QUESTIONS_PER_PAGE))

\* C8 amended: for a page p >= 1 (1 when none is asked for) of a category
\* with k stored questions, the answer is 404 when the page is empty (as it
\* is when k = 0), and otherwise success with min(10, k - (p-1)*10) distinct
\* questions, all of that category, and total_questions = k.
C8_CategoryPage ==
  (resp.op = "by_category" /\ PageOf(resp.req.page) >= 1) =>
    LET k == Cardinality(OfCategory)
        n == Shown(k, PageOf(resp.req.page))
    IN  IF n = 0 THEN ErrorEnvelope(404, "resource not found")
        ELSE /\ resp.status = 200
             /\ resp.body["success"] = TRUE
             /\ Len(resp.body["questions"]) = n
             /\ Cardinality(Range(resp.body["questions"])) = n
             /\ Range(resp.body["questions"]) \subseteq
                  {Format(q) : q \in OfCategory}
             /\ resp.body["total_questions"] = k
             /\ resp.body["current_category"] = resp.req.id

C8_Witness ==
  /\ resp.op = "by_category"
  /\ resp.req.page = Absent
  /\ resp.status = 200
  /\ Cardinality(OfCategory) > QUESTIONS_PER_PAGE
  /\ Len(resp.body["questions"]) = QUESTIONS_PER_PAGE
  /\ questions # OfCategory

\* C9: POST /quizzes answers 400 "bad request" for every body in which
\* quiz_category or previous_questions is missing or malformed, and the table
\* stays as it was.
C9_MalformedQuizIs400 ==
  (resp.op = "quiz" /\ ~QuizWellFormed(resp.req.body)) =>
    /\ ErrorEnvelope(400, "bad request")
    /\ questions = pre

\* C10: in a round that no create or delete disturbs, no question is served
\* twice, only questions of the pool are served, each call but the last
\* serves one, and the call that gets no question comes exactly when every
\* question of the pool has been served: after k served questions, as call
\* number k+1.
C10_QuizRoundServesPoolOnce ==
  /\ quizState # "failed"
  /\ quizState \in {"playing", "done"} =>
       /\ Cardinality(Range(quizPrev)) = Len(quizPrev)
       /\ Range(quizPrev) \subseteq quizPool
       /\ quizCalls = Len(quizPrev) + (IF quizState = "done" THEN 1 ELSE 0)
       /\ quizState = "done" =>
            /\ Range(quizPrev) = quizPool
            /\ quizCalls = Cardinality(quizPool) + 1

C10_Witness ==
  /\ quizState = "done"
  /\ quizCat # 0
  /\ Len(quizPrev) = 2
  /\ quizPool # Ids(questions)

=============================================================================
